---- MODULE Spec2Model ----
(***************************************************************************)
(* A model of the k8sexec package: the token bucket of throttle.go and the *)
(* command execution gateway and file probes of k8sexec.go.                *)
(*                                                                         *)
(* SpecTB      the token bucket: refill goroutine, ticker, Wait callers    *)
(* FairSpecTB  SpecTB with the scheduling fairness of the Go runtime       *)
(* SpecExec    one invocation of Exec or ExecWithContext                   *)
(* SpecProbe   one invocation of ReadFile                                  *)
(***************************************************************************)
EXTENDS Integers, Sequences, FiniteSets, TLC

VARIABLES
    \* ---- throttle.go ----
    burst,      \* cap(bucket.tokens)
    tokens,     \* len(bucket.tokens)
    mu,         \* bucket.mu is held
    tickC,      \* len(ticker.C), a channel of capacity 1
    rpc,        \* position of the refill goroutine
    wpc,        \* position of every caller of Wait
    started,    \* history: calls of Wait made so far
    completed,  \* history: calls of Wait that returned
    added,      \* history: sends of the refill goroutine that completed
    lastTick,   \* history: what the refill goroutine did with its last tick
    \* ---- k8sexec.go ----
    op,         \* the public operation invoked
    target,     \* its podName and containerName
    opPc,       \* its position
    ctx,        \* the context.Context that governs it
    execPc,     \* position of the exec helper
    stdout,     \* the bytes.Buffer stdout of the operation
    stderr,     \* the bytes.Buffer stderr of the operation
    execRet,    \* (ExitCode, error) returned by the last exec
    result,     \* what the operation returned
    written,    \* history: what the remote command of the running exec wrote
    ending,     \* history: how the last exec ended
    nStreams,   \* history: calls of StreamWithContext
    nStatus,    \* history: calls of NewExecutionStatus
    issued,     \* history: commands handed to exec, in order
    finished,   \* history: exit codes exec returned, in order
    fileMode,   \* the permission bits of the file a probe is asked about
    cluster,    \* the pods of the namespace that exist
    churn,      \* history: changes of the pods during a call of GetUniquePods
    groups,     \* the Deployments, StatefulSets and DaemonSets of the namespace
    gup,        \* the locals of GetUniquePods and what it returned
    listed,     \* history: what every List call of GetUniquePods returned
    call,       \* the function called and its argument
    returned    \* what it returned

tbVars   == <<burst, tokens, mu, tickC, rpc, wpc, started, completed, added,
             lastTick>>
execVars == <<op, target, opPc, ctx, execPc, stdout, stderr, execRet, result,
              written, ending, nStreams, nStatus, issued, finished>>
apiVars  == <<fileMode, cluster, churn, groups, gup, listed, call, returned>>
vars     == <<tbVars, execVars, apiVars>>

-----------------------------------------------------------------------------
(* Bounds of the model *)

MaxBurst == 2
NumCallers == 2
MaxCalls == 3

Callers == 1..NumCallers

-----------------------------------------------------------------------------
(* throttle.go *)

\* faulty variant: the fill loop stops one token short
InitialFillShort(b) == IF b > 0 THEN b - 1 ELSE 0
\* for i := 0; i < burst; i++ { bucket.tokens <- struct{}{} }
InitialFill(b) == b

\* faulty variant: a receive that does not block on an empty channel
CanRecvEmpty(n) == n >= 0
\* a receive from a buffered channel proceeds only when it holds an element
CanRecv(n) == n > 0

\* a send on a buffered channel proceeds only when it is not full
CanSend(n, c) == n < c

\* faulty variant: Wait takes two tokens
RecvTwo(n) == n - 2
\* <-tb.tokens takes one element
Recv(n) == n - 1

\* bucket.tokens <- struct{}{} adds one element
Send(n) == n + 1

\* faulty variant: the refill stops one token below the capacity
BelowCapShort(n, c) == n < c - 1
\* faulty variant: the refill sends without looking at the channel
BelowCapAlways(n, c) == TRUE
\* if len(bucket.tokens) < cap(bucket.tokens)
BelowCap(n, c) == n < c

InitTBVars ==
    /\ burst \in 0..MaxBurst
    /\ tokens = InitialFill(burst)
    /\ mu = FALSE
    /\ tickC = 0
    /\ rpc = "range"
    /\ wpc = [c \in Callers |-> "idle"]
    /\ started = 0
    /\ completed = 0
    /\ added = 0
    /\ lastTick = "none"

\* the runtime's timer sends on ticker.C and drops the tick when it is full
Tick ==
    /\ tickC' = 1
    /\ UNCHANGED <<burst, tokens, mu, rpc, wpc, started, completed, added, lastTick>>
    /\ UNCHANGED <<execVars, apiVars>>

\* for range ticker.C
RefillRecv ==
    /\ rpc = "range"
    /\ tickC = 1
    /\ tickC' = 0
    /\ rpc' = "lock"
    /\ UNCHANGED <<burst, tokens, mu, wpc, started, completed, added, lastTick>>
    /\ UNCHANGED <<execVars, apiVars>>

\* bucket.mu.Lock()
RefillLock ==
    /\ rpc = "lock"
    /\ ~mu
    /\ mu' = TRUE
    /\ rpc' = "check"
    /\ UNCHANGED <<burst, tokens, tickC, wpc, started, completed, added,
                   lastTick>>
    /\ UNCHANGED <<execVars, apiVars>>

\* if len(bucket.tokens) < cap(bucket.tokens)
RefillCheck ==
    /\ rpc = "check"
    /\ rpc' = IF BelowCap(tokens, burst) THEN "send" ELSE "unlock"
    /\ lastTick' = IF BelowCap(tokens, burst) THEN lastTick ELSE "dropped"
    /\ UNCHANGED <<burst, tokens, mu, tickC, wpc, started, completed, added>>
    /\ UNCHANGED <<execVars, apiVars>>

\* bucket.tokens <- struct{}{}
RefillSend ==
    /\ rpc = "send"
    /\ CanSend(tokens, burst)
    /\ tokens' = Send(tokens)
    /\ added' = added + 1
    /\ rpc' = "unlock"
    /\ lastTick' = "added"
    /\ UNCHANGED <<burst, mu, tickC, wpc, started, completed>>
    /\ UNCHANGED <<execVars, apiVars>>

\* bucket.mu.Unlock()
RefillUnlock ==
    /\ rpc = "unlock"
    /\ mu' = FALSE
    /\ rpc' = "range"
    /\ UNCHANGED <<burst, tokens, tickC, wpc, started, completed, added,
                   lastTick>>
    /\ UNCHANGED <<execVars, apiVars>>

Refill == RefillRecv \/ RefillLock \/ RefillCheck \/ RefillSend \/ RefillUnlock

\* a caller enters Wait and reaches the receive
WaitCall(c) ==
    /\ wpc[c] = "idle"
    /\ started < MaxCalls
    /\ wpc' = [wpc EXCEPT ![c] = "wait"]
    /\ started' = started + 1
    /\ UNCHANGED <<burst, tokens, mu, tickC, rpc, completed, added, lastTick>>
    /\ UNCHANGED <<execVars, apiVars>>

\* <-tb.tokens completes and Wait returns
WaitReturn(c) ==
    /\ wpc[c] = "wait"
    /\ CanRecv(tokens)
    /\ tokens' = Recv(tokens)
    /\ completed' = completed + 1
    /\ wpc' = [wpc EXCEPT ![c] = "idle"]
    /\ UNCHANGED <<burst, mu, tickC, rpc, started, added, lastTick>>
    /\ UNCHANGED <<execVars, apiVars>>

-----------------------------------------------------------------------------
(* k8sexec.go: exit codes and errors *)

ExecutionTimeOut == -2
InternalAppError == -1
Success == 0

\* the exit codes a remote process is let to end with in this model
ExitCodes == {1, 137}

\* An error is the chain errors.Is and errors.As walk, outermost first; nil
\* is the empty chain.  A node has a kind, the Code of a CodeExitError, and
\* the text of its Error(), a sequence of characters.
NoErr == <<>>
ErrNode(k, c, t) == [kind |-> k, code |-> c, text |-> t]

DeadlineExceeded == <<ErrNode("DeadlineExceeded", 0, <<"context deadline exceeded">>)>>
Canceled == <<ErrNode("Canceled", 0, <<"context canceled">>)>>
CodeExitError(n) == <<ErrNode("CodeExit", n, <<"command terminated with exit code">>)>>
\* a CodeExitError inside an error that wraps it
Wrapped(e) == <<ErrNode("Wrap", 0, <<"error executing command", ":", "\n">>)>> \o e

\* what NewSPDYExecutor fails with
ExecutorErrors == {<<ErrNode("Other", 0, <<"tls", "\n", "bad certificate">>)>>}
\* what StreamWithContext fails with when the stream cannot be established
TransportErrors ==
    {<<ErrNode("Other", 0, <<"unable to upgrade connection">>)>>,
     <<ErrNode("Other", 0, <<"dial tcp", "\n", "connection refused", "\n">>)>>}

\* err.Error()
ErrorText(e) == e[1].text

\* errors.Is(err, context.DeadlineExceeded)
ErrorsIsDeadline(e) == \E i \in 1..Len(e) : e[i].kind = "DeadlineExceeded"

\* faulty variant: no error is recognised as a CodeExitError
ErrorsAsNever(e) == 0
\* errors.As(err, &exitError): the first CodeExitError of the chain, 0 if none
ErrorsAs(e) ==
    IF \E i \in 1..Len(e) : e[i].kind = "CodeExit"
    THEN CHOOSE i \in 1..Len(e) :
            /\ e[i].kind = "CodeExit"
            /\ \A j \in 1..(i - 1) : e[j].kind # "CodeExit"
    ELSE 0

\* strings.Split(s, "\n")
RECURSIVE Split(_)
Split(s) ==
    IF \E i \in 1..Len(s) : s[i] = "\n"
    THEN LET i == CHOOSE k \in 1..Len(s) :
                     /\ s[k] = "\n"
                     /\ \A j \in 1..(k - 1) : s[j] # "\n"
         IN  <<SubSeq(s, 1, i - 1)>> \o Split(SubSeq(s, i + 1, Len(s)))
    ELSE <<s>>

\* NewExecutionStatus
NewExecutionStatus(pod, container, retCode, error, out, err) ==
    [Pod |-> pod, Container |-> container, RetCode |-> retCode,
     Error |-> Split(error), Stdout |-> Split(out), Stderr |-> Split(err)]

\* faulty variant: a failure that is no process exit is given GeneralError
ExecReturnGeneral(err) ==
    IF err # NoErr
    THEN IF ErrorsAs(err) # 0
         THEN [code |-> err[ErrorsAs(err)].code, err |-> <<err[ErrorsAs(err)]>>]
         ELSE [code |-> 1, err |-> err]
    ELSE [code |-> Success, err |-> NoErr]
\* exec, from the return of StreamWithContext on: the (ExitCode, error) pair
ExecReturn(err) ==
    IF err # NoErr
    THEN IF ErrorsAs(err) # 0
         THEN [code |-> err[ErrorsAs(err)].code, err |-> <<err[ErrorsAs(err)]>>]
         ELSE [code |-> InternalAppError, err |-> err]
    ELSE [code |-> Success, err |-> NoErr]

\* faulty variant: Exec without the check for context.DeadlineExceeded
ExecOutcomeNoSentinel(pod, container, ret, out, err) ==
    NewExecutionStatus(pod, container, ret.code,
                       IF ret.err # NoErr THEN ErrorText(ret.err) ELSE <<>>,
                       out, err)
\* Exec, after exec returned
ExecOutcome(pod, container, ret, out, err) ==
    LET errMessage == IF ret.err # NoErr THEN ErrorText(ret.err) ELSE <<>>
        retCode == IF ErrorsIsDeadline(ret.err) THEN ExecutionTimeOut ELSE ret.code
    IN  NewExecutionStatus(pod, container, retCode, errMessage, out, err)

\* ExecWithContext, after exec returned
ExecWithContextOutcome(pod, container, ret, out, err) ==
    LET errMessage == IF ret.err # NoErr THEN ErrorText(ret.err) ELSE <<>>
    IN  NewExecutionStatus(pod, container, ret.code, errMessage, out, err)

-----------------------------------------------------------------------------
(* k8sexec.go: exec and the operations built on it *)

\* the most characters a remote command writes during one operation
MaxOut == 2
\* the largest number of Deployments, StatefulSets and DaemonSets, taken
\* together, in the namespace
MaxGroups == 2
\* the most pods deleted while one call of GetUniquePods runs
MaxChurn == 1
\* the most containers of a pod and the most pods of a namespace listing
\* walked by GetUniqueImages
MaxContainers == 2
MaxListed == 2
\* the largest exit code looked up
MaxCode == 256

\* the characters a remote command writes
Chars == {"a", "\n"}

Pods == {"pod-0"}
Containers == {"app"}

\* context.WithTimeout(context.Background(), timeout): a timeout that is not
\* positive makes a context that is done from the start
WithTimeout(timeout) ==
    [deadline |-> TRUE, err |-> IF timeout <= 0 THEN DeadlineExceeded ELSE NoErr]

\* the timeouts Exec is called with
Timeouts == {0, 5}

\* the contexts ExecWithContext is called with: context.Background(), one
\* with a deadline ahead, one whose deadline passed, one already cancelled
CallerContexts ==
    {[deadline |-> FALSE, err |-> NoErr], [deadline |-> TRUE, err |-> NoErr],
     [deadline |-> TRUE, err |-> DeadlineExceeded],
     [deadline |-> FALSE, err |-> Canceled]}

\* the commands of ReadFile, in the order of its four calls of exec
ReadFileChain == <<"cat", "sed", "tail", "sh">>

\* faulty variant: ReadFile goes on to the next command after a success too
ReadFileTriesNextAlways(retCode) == TRUE
\* if retCode != Success, before each later call of exec in ReadFile
ReadFileTriesNext(retCode) == retCode # Success

NoWrites == [out |-> <<>>, err |-> <<>>]

\* how an exec ended: the way, the exit status of the remote process, and the
\* text of the failure as NewSPDYExecutor or StreamWithContext gave it
Ending(how, status, text) == [how |-> how, status |-> status, text |-> text]
NoEnding == Ending("none", 0, <<>>)

InitExecVars ==
    /\ op = "none"
    /\ target = <<>>
    /\ opPc = "idle"
    /\ ctx = [deadline |-> FALSE, err |-> NoErr]
    /\ execPc = "idle"
    /\ stdout = <<>>
    /\ stderr = <<>>
    /\ execRet = [code |-> Success, err |-> NoErr]
    /\ result = <<>>
    /\ written = NoWrites
    /\ ending = NoEnding
    /\ nStreams = 0
    /\ nStatus = 0
    /\ issued = <<>>
    /\ finished = <<>>

\* Exec is called: var stdout, stderr bytes.Buffer; context.WithTimeout; exec
CallExec(pod, container, timeout) ==
    /\ op = "none"
    /\ op' = "Exec"
    /\ target' = <<pod, container>>
    /\ opPc' = "exec"
    /\ ctx' = WithTimeout(timeout)
    /\ execPc' = "Pending"
    /\ issued' = <<"args">>
    /\ result' = <<>>
    /\ UNCHANGED <<stdout, stderr, execRet, written, ending, nStreams, nStatus,
                   finished>>
    /\ UNCHANGED <<tbVars, apiVars>>

\* ExecWithContext is called with the caller's context
CallExecWithContext(pod, container, c) ==
    /\ op = "none"
    /\ op' = "ExecWithContext"
    /\ target' = <<pod, container>>
    /\ opPc' = "exec"
    /\ ctx' = c
    /\ execPc' = "Pending"
    /\ issued' = <<"args">>
    /\ result' = <<>>
    /\ UNCHANGED <<stdout, stderr, execRet, written, ending, nStreams, nStatus,
                   finished>>
    /\ UNCHANGED <<tbVars, apiVars>>

\* ReadFile is called: context.WithTimeout(..., 5*time.Second); exec of cat
CallReadFile(pod, container) ==
    /\ op = "none"
    /\ op' = "ReadFile"
    /\ target' = <<pod, container>>
    /\ opPc' = "exec"
    /\ ctx' = WithTimeout(5)
    /\ execPc' = "Pending"
    /\ issued' = <<ReadFileChain[1]>>
    /\ result' = <<>>
    /\ UNCHANGED <<stdout, stderr, execRet, written, ending, nStreams, nStatus,
                   finished>>
    /\ UNCHANGED <<tbVars, apiVars>>

\* the deadline of the context passes
CtxExpire ==
    /\ op # "none"
    /\ opPc # "returned"
    /\ ctx.deadline
    /\ ctx.err = NoErr
    /\ ctx' = [ctx EXCEPT !.err = DeadlineExceeded]
    /\ UNCHANGED <<op, target, opPc, execPc, stdout, stderr, execRet, result, written,
                   ending, nStreams, nStatus, issued, finished>>
    /\ UNCHANGED <<tbVars, apiVars>>

\* the caller of ExecWithContext cancels the context it passed
CtxCancel ==
    /\ op = "ExecWithContext"
    /\ opPc # "returned"
    /\ ctx.err = NoErr
    /\ ctx' = [ctx EXCEPT !.err = Canceled]
    /\ UNCHANGED <<op, target, opPc, execPc, stdout, stderr, execRet, result, written,
                   ending, nStreams, nStatus, issued, finished>>
    /\ UNCHANGED <<tbVars, apiVars>>

\* exec: remotecommand.NewSPDYExecutor fails, return InternalAppError, err
NewExecutorFail(e) ==
    /\ execPc = "Pending"
    /\ execRet' = [code |-> InternalAppError, err |-> e]
    /\ execPc' = "done"
    /\ ending' = Ending("executor", 0, ErrorText(e))
    /\ finished' = Append(finished, InternalAppError)
    /\ UNCHANGED <<op, target, opPc, ctx, stdout, stderr, result, written, nStreams,
                   nStatus, issued>>
    /\ UNCHANGED <<tbVars, apiVars>>

\* exec: the executor is made and executor.StreamWithContext is called
StartStream ==
    /\ execPc = "Pending"
    /\ execPc' = "Streaming"
    /\ nStreams' = nStreams + 1
    /\ UNCHANGED <<op, target, opPc, ctx, stdout, stderr, execRet, result, written,
                   ending, nStatus, issued, finished>>
    /\ UNCHANGED <<tbVars, apiVars>>

\* the remote command writes a character to its standard output
RemoteWriteStdout(ch) ==
    /\ execPc = "Streaming"
    /\ Len(stdout) + Len(stderr) < MaxOut
    /\ stdout' = Append(stdout, ch)
    /\ written' = [written EXCEPT !.out = Append(@, ch)]
    /\ UNCHANGED <<op, target, opPc, ctx, execPc, stderr, execRet, result, ending,
                   nStreams, nStatus, issued, finished>>
    /\ UNCHANGED <<tbVars, apiVars>>

\* the remote command writes a character to its standard error
RemoteWriteStderr(ch) ==
    /\ execPc = "Streaming"
    /\ Len(stdout) + Len(stderr) < MaxOut
    /\ stderr' = Append(stderr, ch)
    /\ written' = [written EXCEPT !.err = Append(@, ch)]
    /\ UNCHANGED <<op, target, opPc, ctx, execPc, stdout, execRet, result, ending,
                   nStreams, nStatus, issued, finished>>
    /\ UNCHANGED <<tbVars, apiVars>>

\* faulty variant: exec makes a new executor and streams again after a failure
StreamReturnRetry(err, how, status) ==
    /\ execPc = "Streaming"
    /\ execRet' = ExecReturn(err)
    /\ execPc' = IF ExecReturn(err).code = InternalAppError THEN "Pending" ELSE "done"
    /\ ending' = Ending(how, status, IF err = NoErr THEN <<>> ELSE ErrorText(err))
    /\ finished' = Append(finished, ExecReturn(err).code)
    /\ UNCHANGED <<op, target, opPc, ctx, stdout, stderr, result, written, nStreams,
                   nStatus, issued>>
    /\ UNCHANGED <<tbVars, apiVars>>
\* exec: StreamWithContext returns err, and exec returns
StreamReturn(err, how, status) ==
    /\ execPc = "Streaming"
    /\ execRet' = ExecReturn(err)
    /\ execPc' = "done"
    /\ ending' = Ending(how, status, IF err = NoErr THEN <<>> ELSE ErrorText(err))
    /\ finished' = Append(finished, ExecReturn(err).code)
    /\ UNCHANGED <<op, target, opPc, ctx, stdout, stderr, result, written, nStreams,
                   nStatus, issued>>
    /\ UNCHANGED <<tbVars, apiVars>>

\* the remote command exits with status 0
StreamExitZero == StreamReturn(NoErr, "exit0", 0)

\* the remote command exits with a status that is not 0
StreamExitCode(n) ==
    \/ StreamReturn(CodeExitError(n), "exit", n)
    \/ StreamReturn(Wrapped(CodeExitError(n)), "exit", n)

\* the stream cannot be established, or breaks
StreamFail(e) == StreamReturn(e, "transport", 0)

\* faulty variant: StreamWithContext only returns early for a deadline
StreamCtxDoneDeadlineOnly ==
    /\ ctx.err = DeadlineExceeded
    /\ StreamReturn(ctx.err, "deadline", 0)
\* the context is done while StreamWithContext runs: it returns ctx.Err()
StreamCtxDone ==
    /\ ctx.err # NoErr
    /\ StreamReturn(ctx.err,
                    IF ctx.err = DeadlineExceeded THEN "deadline" ELSE "canceled", 0)

\* Exec, lines 513-520: the ExecutionStatus is built and returned
ExecFinish ==
    /\ op = "Exec"
    /\ opPc = "exec"
    /\ execPc = "done"
    /\ result' = <<ExecOutcome(target[1], target[2], execRet, stdout, stderr)>>
    /\ nStatus' = nStatus + 1
    /\ opPc' = "returned"
    /\ UNCHANGED <<op, target, ctx, execPc, stdout, stderr, execRet, written, ending,
                   nStreams, issued, finished>>
    /\ UNCHANGED <<tbVars, apiVars>>

\* ExecWithContext, lines 533-536
ExecWithContextFinish ==
    /\ op = "ExecWithContext"
    /\ opPc = "exec"
    /\ execPc = "done"
    /\ result' = <<ExecWithContextOutcome(target[1], target[2], execRet, stdout,
                                           stderr)>>
    /\ nStatus' = nStatus + 1
    /\ opPc' = "returned"
    /\ UNCHANGED <<op, target, ctx, execPc, stdout, stderr, execRet, written, ending,
                   nStreams, issued, finished>>
    /\ UNCHANGED <<tbVars, apiVars>>

\* ReadFile: the last exec did not succeed and the next command is tried
\* with the same context and the same buffers
ReadFileNext ==
    /\ op = "ReadFile"
    /\ opPc = "exec"
    /\ execPc = "done"
    /\ Len(issued) < Len(ReadFileChain)
    /\ ReadFileTriesNext(execRet.code)
    /\ issued' = Append(issued, ReadFileChain[Len(issued) + 1])
    /\ execPc' = "Pending"
    /\ written' = NoWrites
    /\ UNCHANGED <<op, target, opPc, ctx, stdout, stderr, execRet, result,
                   ending, nStreams, nStatus, finished>>
    /\ UNCHANGED <<tbVars, apiVars>>

\* faulty variant: ReadFile returns the text and no error
ReadFileReturnNoErr ==
    /\ op = "ReadFile"
    /\ opPc = "exec"
    /\ execPc = "done"
    /\ ~(Len(issued) < Len(ReadFileChain) /\ ReadFileTriesNext(execRet.code))
    /\ result' = <<[str |-> stdout, err |-> NoErr]>>
    /\ opPc' = "returned"
    /\ UNCHANGED <<op, target, ctx, execPc, stdout, stderr, execRet, written,
                   ending, nStreams, nStatus, issued, finished>>
    /\ UNCHANGED <<tbVars, apiVars>>

\* ReadFile: return stdout.String(), err
ReadFileReturn ==
    /\ op = "ReadFile"
    /\ opPc = "exec"
    /\ execPc = "done"
    /\ ~(Len(issued) < Len(ReadFileChain) /\ ReadFileTriesNext(execRet.code))
    /\ result' = <<[str |-> stdout, err |-> execRet.err]>>
    /\ opPc' = "returned"
    /\ UNCHANGED <<op, target, ctx, execPc, stdout, stderr, execRet, written,
                   ending, nStreams, nStatus, issued, finished>>
    /\ UNCHANGED <<tbVars, apiVars>>

-----------------------------------------------------------------------------
(* k8sexec.go: CheckIfFilePathIsReadable *)

\* the permission bits of a file, as the octal digits stat -c %a prints:
\* owner, group, others, with the special bits in front when one is set
FileModes ==
    {<<o, g, t>> : o \in {2, 6}, g \in {0, 4}, t \in {0, 5}}
        \cup {<<1, o, g, t>> : o \in {0, 6}, g \in {0, 4}, t \in {0, 5}}

OctalDigits == <<"0", "1", "2", "3", "4", "5", "6", "7">>

\* what stat -c %a writes for a file: the digits and a line break
StatOutput(mode) == [i \in 1..Len(mode) |-> OctalDigits[mode[i] + 1]] \o <<"\n">>

\* the byte of a character
ByteOf(ch) ==
    CASE ch = "\n" -> 10
      [] ch = "a" -> 97
      [] OTHER -> 47 + (CHOOSE i \in 1..8 : OctalDigits[i] = ch)

\* int(permStr[i] - '0'), a subtraction of bytes
PermDigit(ch) == (ByteOf(ch) - 48) % 256

\* perm&readBit != 0, with readBit = 4
HasReadBit(v) == (v \div 4) % 2 = 1

\* CheckIfFilePathIsReadable, lines 399-413: the verdict read from the
\* captured output of stat
PermReadable(permStr) ==
    IF Len(permStr) >= 3
    THEN LET p == IF Len(permStr) = 4 THEN Tail(permStr) ELSE permStr
         IN  \/ HasReadBit(PermDigit(p[1]))
             \/ HasReadBit(PermDigit(p[2]))
             \/ HasReadBit(PermDigit(p[3]))
    ELSE FALSE

\* CheckIfFilePathIsReadable is called: context.WithTimeout(..., 5*time.Second)
\* and exec of stat -c %a
CallCheckReadable(pod, container, mode) ==
    /\ op = "none"
    /\ op' = "CheckReadable"
    /\ target' = <<pod, container>>
    /\ fileMode' = mode
    /\ opPc' = "exec"
    /\ ctx' = WithTimeout(5)
    /\ execPc' = "Pending"
    /\ issued' = <<"stat">>
    /\ result' = <<>>
    /\ UNCHANGED <<stdout, stderr, execRet, written, ending, nStreams, nStatus,
                   finished>>
    /\ UNCHANGED <<cluster, churn, groups, gup, listed, call, returned>>
    /\ UNCHANGED tbVars

\* the remote stat writes the permission bits of the file
StatPrint ==
    /\ execPc = "Streaming"
    /\ issued[Len(issued)] = "stat"
    /\ written.out = <<>>
    /\ stdout' = stdout \o StatOutput(fileMode)
    /\ written' = [written EXCEPT !.out = StatOutput(fileMode)]
    /\ UNCHANGED <<op, target, opPc, ctx, execPc, stderr, execRet, result, ending,
                   nStreams, nStatus, issued, finished>>
    /\ UNCHANGED <<tbVars, apiVars>>

\* the remote command exits with status 0: stat after it wrote the
\* permission bits, the shell test when the file is readable
ProbeExitZero ==
    /\ execPc = "Streaming"
    /\ issued[Len(issued)] = "stat" => written.out # <<>>
    /\ StreamExitZero

\* CheckIfFilePathIsReadable: stat did not succeed, exec of sh -c test -r with
\* the same context and the same buffers
CheckReadableFallback ==
    /\ op = "CheckReadable"
    /\ opPc = "exec"
    /\ execPc = "done"
    /\ Len(issued) = 1
    /\ execRet.code # Success
    /\ issued' = Append(issued, "test")
    /\ execPc' = "Pending"
    /\ written' = NoWrites
    /\ UNCHANGED <<op, target, opPc, ctx, stdout, stderr, execRet, result,
                   ending, nStreams, nStatus, finished>>
    /\ UNCHANGED <<tbVars, apiVars>>

\* CheckIfFilePathIsReadable returns: retCode == Success after the shell test,
\* the verdict read from the output of stat otherwise
CheckReadableReturn ==
    /\ op = "CheckReadable"
    /\ opPc = "exec"
    /\ execPc = "done"
    /\ (Len(issued) = 2 \/ execRet.code = Success)
    /\ result' = <<IF Len(issued) = 2 THEN execRet.code = Success
                   ELSE PermReadable(stdout)>>
    /\ opPc' = "returned"
    /\ UNCHANGED <<op, target, ctx, execPc, stdout, stderr, execRet, written,
                   ending, nStreams, nStatus, issued, finished>>
    /\ UNCHANGED <<tbVars, apiVars>>

-----------------------------------------------------------------------------
(* k8sexec.go: GetUniquePods *)

\* the pods that may exist in the namespace, in the order a listing returns
\* them, and the labels they carry
NamespacePods == <<"p1", "p2", "p3">>
PodLabels(p) ==
    CASE p = "p1" -> {<<"app", "web">>, <<"tier", "db">>}
      [] p = "p2" -> {<<"app", "web">>}
      [] OTHER -> {}

\* Spec.Selector.MatchLabels of the groups that may exist
Selectors == {{<<"app", "web">>}, {<<"tier", "db">>}, {<<"app", "api">>}}

Kinds == <<"Deployments", "StatefulSets", "DaemonSets">>

SelectorSeqs == UNION {[1..n -> Selectors] : n \in 0..MaxGroups}
\* the groups of the namespace: the selectors of its Deployments, of its
\* StatefulSets and of its DaemonSets, in enumeration order
GroupConfigs ==
    {g \in [1..3 -> SelectorSeqs] : Len(g[1]) + Len(g[2]) + Len(g[3]) <= MaxGroups}

\* what a call of the API fails with
ApiErrors == {<<ErrNode("Other", 0, <<"forbidden">>)>>}

\* mapToLabelSelector: the key=value parts of the selector string; the
\* order in which they are joined does not matter to the API server
mapToLabelSelector(labels) == {kv[1] \o "=" \o kv[2] : kv \in labels}

\* Pods(namespace).List with a label selector: the pods that exist and carry
\* every required label, in name order
ListPods(alive, selector) ==
    SelectSeq(NamespacePods,
              LAMBDA p : /\ p \in alive
                         /\ selector \subseteq mapToLabelSelector(PodLabels(p)))

PodNamesOf(pods) == {pods[i] : i \in 1..Len(pods)}

\* one entry of the history of API calls made by GetUniquePods
Listing(c, k, i, e, its) == [call |-> c, kind |-> k, idx |-> i, err |-> e, items |-> its]

\* faulty variant: the last pod of a listing stands for the group
RepresentativeLast(pods) == IF Len(pods) > 0 THEN <<pods[Len(pods)]>> ELSE <<>>
\* lines 265-267: if len(pods) > 0 { uniquePods = append(uniquePods, pods[0]) }
Representative(pods) == IF Len(pods) > 0 THEN <<pods[1]>> ELSE <<>>

\* where GetUniquePods continues once the groups of one kind before idx are
\* done: the next group of the kind, the enumeration of the next kind, or the
\* final listing
Continue(g, idx) ==
    IF idx <= Len(groups[g.kind])
    THEN [g EXCEPT !.pc = "pods", !.idx = idx]
    ELSE IF g.kind < 3
         THEN [g EXCEPT !.pc = "enumerate", !.kind = g.kind + 1, !.idx = 0]
         ELSE [g EXCEPT !.pc = "final", !.idx = 0]

\* faulty variant: a failed listing ends the loops over the groups
AfterGetPodsAbort(g, err, pods) ==
    IF err # NoErr
    THEN [g EXCEPT !.pc = "final", !.idx = 0]
    ELSE Continue([g EXCEPT !.uniquePods = @ \o Representative(pods),
                            !.member[g.kind] = @ \cup PodNamesOf(pods)],
                  g.idx + 1)
\* the body of the loop over the groups of one kind, after k8s.GetPods
\* returned: continue on an error; otherwise the first pod is appended and
\* every pod is recorded in the membership map of the kind (of which only the
\* keys are read)
AfterGetPods(g, err, pods) ==
    IF err # NoErr
    THEN Continue(g, g.idx + 1)
    ELSE Continue([g EXCEPT !.uniquePods = @ \o Representative(pods),
                            !.member[g.kind] = @ \cup PodNamesOf(pods)],
                  g.idx + 1)

\* faulty variant: the first pod outside the membership maps is left out
RemainderTail(podsList, member) ==
    LET rest == SelectSeq(podsList,
                          LAMBDA p : p \notin (member[1] \cup member[2] \cup member[3]))
    IN  IF rest = <<>> THEN rest ELSE Tail(rest)
\* lines 324-335: the pods of the final listing that are in none of the
\* three membership maps
Remainder(podsList, member) ==
    SelectSeq(podsList, LAMBDA p : p \notin (member[1] \cup member[2] \cup member[3]))

\* a pod of the namespace is deleted while GetUniquePods runs
PodDeleted(p) ==
    /\ gup.pc \notin {"idle", "returned"}
    /\ churn < MaxChurn
    /\ p \in cluster
    /\ cluster' = cluster \ {p}
    /\ churn' = churn + 1
    /\ UNCHANGED <<fileMode, groups, gup, listed, call, returned>>
    /\ UNCHANGED <<tbVars, execVars>>

\* GetUniquePods is called
CallGetUniquePods ==
    /\ gup.pc = "idle"
    /\ gup' = [pc |-> "enumerate", kind |-> 1, idx |-> 0, uniquePods |-> <<>>,
               member |-> <<{}, {}, {}>>]
    /\ UNCHANGED <<fileMode, cluster, churn, groups, listed, call, returned>>
    /\ UNCHANGED <<tbVars, execVars>>

\* GetDeployments, GetStatefulSets or GetDaemonSets returns the groups
EnumerateGroups ==
    /\ gup.pc = "enumerate"
    /\ listed' = Append(listed, Listing(Kinds[gup.kind], gup.kind, 0, NoErr,
                                        groups[gup.kind]))
    /\ gup' = Continue(gup, 1)
    /\ UNCHANGED <<fileMode, cluster, churn, groups, call, returned>>
    /\ UNCHANGED <<tbVars, execVars>>

\* GetDeployments, GetStatefulSets or GetDaemonSets fails: return 0, nil, err
EnumerateGroupsFail(e) ==
    /\ gup.pc = "enumerate"
    /\ listed' = Append(listed, Listing(Kinds[gup.kind], gup.kind, 0, e, <<>>))
    /\ returned' = <<[total |-> 0, pods |-> <<>>, err |-> e]>>
    /\ gup' = [gup EXCEPT !.pc = "returned"]
    /\ UNCHANGED <<fileMode, cluster, churn, groups, call>>
    /\ UNCHANGED <<tbVars, execVars>>

\* k8s.GetPods(options) returns the pods the selector of the group matches
GroupPods ==
    /\ gup.pc = "pods"
    /\ LET pods == ListPods(cluster, mapToLabelSelector(groups[gup.kind][gup.idx]))
       IN  /\ listed' = Append(listed, Listing("Pods", gup.kind, gup.idx, NoErr, pods))
           /\ gup' = AfterGetPods(gup, NoErr, pods)
    /\ UNCHANGED <<fileMode, cluster, churn, groups, call, returned>>
    /\ UNCHANGED <<tbVars, execVars>>

\* k8s.GetPods(options) fails
GroupPodsFail(e) ==
    /\ gup.pc = "pods"
    /\ listed' = Append(listed, Listing("Pods", gup.kind, gup.idx, e, <<>>))
    /\ gup' = AfterGetPods(gup, e, <<>>)
    /\ UNCHANGED <<fileMode, cluster, churn, groups, call, returned>>
    /\ UNCHANGED <<tbVars, execVars>>

\* the final Pods(namespace).List returns, the pods outside every membership
\* map are appended, and GetUniquePods returns
FinalList ==
    /\ gup.pc = "final"
    /\ LET podsList == ListPods(cluster, {})
       IN  /\ listed' = Append(listed, Listing("Pods", 0, 0, NoErr, podsList))
           /\ returned' = <<[total |-> Len(podsList),
                             pods |-> gup.uniquePods \o Remainder(podsList, gup.member),
                             err |-> NoErr]>>
    /\ gup' = [gup EXCEPT !.pc = "returned"]
    /\ UNCHANGED <<fileMode, cluster, churn, groups, call>>
    /\ UNCHANGED <<tbVars, execVars>>

\* the final Pods(namespace).List fails: return 0, nil, err
FinalListFail(e) ==
    /\ gup.pc = "final"
    /\ listed' = Append(listed, Listing("Pods", 0, 0, e, <<>>))
    /\ returned' = <<[total |-> 0, pods |-> <<>>, err |-> e]>>
    /\ gup' = [gup EXCEPT !.pc = "returned"]
    /\ UNCHANGED <<fileMode, cluster, churn, groups, call>>
    /\ UNCHANGED <<tbVars, execVars>>

-----------------------------------------------------------------------------
(* k8sexec.go: GetUniqueImages *)

Images == {"nginx", "redis"}
\* pod.Spec.Containers, each container given by its image
ContainerSeqs == UNION {[1..n -> Images] : n \in 0..MaxContainers}
\* what Pods(namespace).List returns: the pods, or an error
ImageListings ==
    {[err |-> NoErr, items |-> l] :
        l \in UNION {[1..n -> ContainerSeqs] : n \in 0..MaxListed}}
        \cup {[err |-> e, items |-> <<>>] : e \in ApiErrors}

\* faulty variant: no image is found in the list
ContainsNever(s, x) == FALSE
\* slices.Contains
Contains(s, x) == \E i \in 1..Len(s) : s[i] = x

\* lines 354-359: the loop over the containers of one pod
RECURSIVE WalkContainers(_, _)
WalkContainers(images, containers) ==
    IF containers = <<>>
    THEN images
    ELSE WalkContainers(IF Contains(images, Head(containers))
                        THEN images
                        ELSE Append(images, Head(containers)),
                        Tail(containers))

\* lines 352-360: the loop over the pods
RECURSIVE WalkPods(_, _, _)
WalkPods(containersCount, images, pods) ==
    IF pods = <<>>
    THEN [count |-> containersCount, images |-> images, err |-> NoErr]
    ELSE WalkPods(containersCount + Len(Head(pods)),
                  WalkContainers(images, Head(pods)),
                  Tail(pods))

\* GetUniqueImages, given what the listing of the pods returned
GetUniqueImages(podsList) ==
    IF podsList.err # NoErr
    THEN [count |-> 0, images |-> <<>>, err |-> podsList.err]
    ELSE WalkPods(0, <<>>, podsList.items)

\* a call of GetUniqueImages, from the listing to the return
GetUniqueImagesCall ==
    /\ returned = <<>>
    /\ call.fn = "GetUniqueImages"
    /\ returned' = <<GetUniqueImages(call.arg)>>
    /\ UNCHANGED <<fileMode, cluster, churn, groups, gup, listed, call>>
    /\ UNCHANGED <<tbVars, execVars>>

-----------------------------------------------------------------------------
(* k8sexec.go: exitCodeDescriptions, GetExitCode, GetExitCodeDescription *)

\* faulty variant: the table with the entry of line 101 for signal 2
exitCodeDescriptionsSignal2 ==
    <<<<-1, "Internal app error">>,
      <<0, "Success">>,
      <<1, "General error, unspecified error">>,
      <<2, "Incorrect usage or syntax of the command">>,
      <<126, "Command cannot execute">>,
      <<127, "Command not found">>,
      <<128, "Invalid argument to exit">>,
      <<130, "Script terminated by Control-C (SIGINT)">>,
      <<255, "Exit status out of range">>,
      <<129, "Fatal error signal 1 (SIGHUP)">>,
      <<130, "Fatal error signal 2 (SIGINT)">>,
      <<131, "Fatal error signal 3 (SIGQUIT)">>,
      <<132, "Fatal error signal 4 (SIGILL)">>,
      <<133, "Fatal error signal 5 (SIGTRAP)">>,
      <<134, "Fatal error signal 6 (SIGABRT/SIGIOT)">>,
      <<135, "Fatal error signal 7 (SIGBUS)">>,
      <<136, "Fatal error signal 8 (SIGFPE)">>,
      <<137, "Fatal error signal 9 (SIGKILL)">>,
      <<138, "Fatal error signal 10 (SIGUSR1)">>,
      <<139, "Fatal error signal 11 (SIGSEGV)">>,
      <<140, "Fatal error signal 12 (SIGUSR2)">>,
      <<141, "Fatal error signal 13 (SIGPIPE)">>,
      <<142, "Fatal error signal 14 (SIGALRM)">>,
      <<143, "Fatal error signal 15 (SIGTERM)">>>>
\* the entries of the map literal, in source order
exitCodeDescriptions ==
    <<<<-1, "Internal app error">>,
      <<0, "Success">>,
      <<1, "General error, unspecified error">>,
      <<2, "Incorrect usage or syntax of the command">>,
      <<126, "Command cannot execute">>,
      <<127, "Command not found">>,
      <<128, "Invalid argument to exit">>,
      <<130, "Script terminated by Control-C (SIGINT)">>,
      <<255, "Exit status out of range">>,
      <<129, "Fatal error signal 1 (SIGHUP)">>,
      <<131, "Fatal error signal 3 (SIGQUIT)">>,
      <<132, "Fatal error signal 4 (SIGILL)">>,
      <<133, "Fatal error signal 5 (SIGTRAP)">>,
      <<134, "Fatal error signal 6 (SIGABRT/SIGIOT)">>,
      <<135, "Fatal error signal 7 (SIGBUS)">>,
      <<136, "Fatal error signal 8 (SIGFPE)">>,
      <<137, "Fatal error signal 9 (SIGKILL)">>,
      <<138, "Fatal error signal 10 (SIGUSR1)">>,
      <<139, "Fatal error signal 11 (SIGSEGV)">>,
      <<140, "Fatal error signal 12 (SIGUSR2)">>,
      <<141, "Fatal error signal 13 (SIGPIPE)">>,
      <<142, "Fatal error signal 14 (SIGALRM)">>,
      <<143, "Fatal error signal 15 (SIGTERM)">>>>

\* _, ok := exitCodeDescriptions[code]
HasDescription(code) ==
    \E i \in 1..Len(exitCodeDescriptions) : exitCodeDescriptions[i][1] = code
\* exitCodeDescriptions[code], for a code that has an entry
DescriptionOf(code) ==
    exitCodeDescriptions[CHOOSE i \in 1..Len(exitCodeDescriptions) :
                            exitCodeDescriptions[i][1] = code][2]

\* faulty variant: the text without the code
NotFoundTextPlain(code) == "description not found"
\* fmt.Sprintf("Exit code %d description not found!", e.Code)
NotFoundText(code) == "Exit code " \o ToString(code) \o " description not found!"

GetExitCode(err) ==
    IF ErrorsAs(err) = 0
    THEN <<InternalAppError, "">>
    ELSE LET code == err[ErrorsAs(err)].code
         IN  IF ~HasDescription(code)
             THEN <<code, NotFoundText(code)>>
             ELSE <<code, DescriptionOf(code)>>

GetExitCodeDescription(code) ==
    IF ~HasDescription(code) THEN "" ELSE DescriptionOf(code)

\* the exit codes looked up: the sentinels, every exit status of a process
\* and a code beyond that range
CodeRange == ExecutionTimeOut..MaxCode

\* the errors GetExitCode is called with
ClassifiedErrors ==
    {NoErr, DeadlineExceeded, Canceled} \cup ExecutorErrors \cup TransportErrors
        \cup {CodeExitError(n) : n \in CodeRange}
        \cup {Wrapped(CodeExitError(n)) : n \in CodeRange}

\* a call of GetExitCode
GetExitCodeCall ==
    /\ returned = <<>>
    /\ call.fn = "GetExitCode"
    /\ returned' = <<GetExitCode(call.arg)>>
    /\ UNCHANGED <<fileMode, cluster, churn, groups, gup, listed, call>>
    /\ UNCHANGED <<tbVars, execVars>>

\* a call of GetExitCodeDescription
GetExitCodeDescriptionCall ==
    /\ returned = <<>>
    /\ call.fn = "GetExitCodeDescription"
    /\ returned' = <<GetExitCodeDescription(call.arg)>>
    /\ UNCHANGED <<fileMode, cluster, churn, groups, gup, listed, call>>
    /\ UNCHANGED <<tbVars, execVars>>

-----------------------------------------------------------------------------
(* Specifications *)

\* no token bucket was made
NoTokenBucket ==
    /\ burst = 0
    /\ tokens = 0
    /\ mu = FALSE
    /\ tickC = 0
    /\ rpc = "range"
    /\ wpc = [c \in Callers |-> "idle"]
    /\ started = 0
    /\ completed = 0
    /\ added = 0
    /\ lastTick = "none"

\* no probe of a file, no listing and no function call is under way
InitApiVars ==
    /\ fileMode = <<>>
    /\ cluster = {}
    /\ churn = 0
    /\ groups = <<>>
    /\ gup = [pc |-> "idle"]
    /\ listed = <<>>
    /\ call = <<>>
    /\ returned = <<>>

InitTB == InitTBVars /\ InitExecVars /\ InitApiVars

NextTB ==
    \/ Tick
    \/ RefillRecv
    \/ RefillLock
    \/ RefillCheck
    \/ RefillSend
    \/ RefillUnlock
    \/ \E c \in Callers : WaitCall(c)
    \/ \E c \in Callers : WaitReturn(c)

SpecTB == InitTB /\ [][NextTB]_vars

\* The timer keeps firing and the refill goroutine keeps being scheduled
\* (weak fairness).  The Go runtime hands a value sent on a channel to the
\* receiver that has been blocked longest, so no blocked receiver is passed
\* over for ever (strong fairness of each caller's receive).
FairSpecTB ==
    /\ SpecTB
    /\ WF_vars(Tick)
    /\ WF_vars(Refill)
    /\ \A c \in Callers : SF_vars(WaitReturn(c))

InitExec == NoTokenBucket /\ InitExecVars /\ InitApiVars

NextExec ==
    \/ \E pod \in Pods, container \in Containers, timeout \in Timeouts :
          CallExec(pod, container, timeout)
    \/ \E pod \in Pods, container \in Containers, c \in CallerContexts :
          CallExecWithContext(pod, container, c)
    \/ CtxExpire
    \/ CtxCancel
    \/ \E e \in ExecutorErrors : NewExecutorFail(e)
    \/ StartStream
    \/ \E ch \in Chars : RemoteWriteStdout(ch)
    \/ \E ch \in Chars : RemoteWriteStderr(ch)
    \/ StreamExitZero
    \/ \E n \in ExitCodes : StreamExitCode(n)
    \/ \E e \in TransportErrors : StreamFail(e)
    \/ StreamCtxDone
    \/ ExecFinish
    \/ ExecWithContextFinish

SpecExec == InitExec /\ [][NextExec]_vars

\* StreamWithContext returns once the context is done, and Exec and
\* ExecWithContext run on to their return once exec returned; the remote
\* command need never finish
FairSpecExec ==
    /\ SpecExec
    /\ WF_vars(StreamCtxDone)
    /\ WF_vars(ExecFinish)
    /\ WF_vars(ExecWithContextFinish)

NextProbe ==
    \/ \E pod \in Pods, container \in Containers : CallReadFile(pod, container)
    \/ CtxExpire
    \/ \E e \in ExecutorErrors : NewExecutorFail(e)
    \/ StartStream
    \/ \E ch \in Chars : RemoteWriteStdout(ch)
    \/ \E ch \in Chars : RemoteWriteStderr(ch)
    \/ StreamExitZero
    \/ \E n \in ExitCodes : StreamExitCode(n)
    \/ \E e \in TransportErrors : StreamFail(e)
    \/ StreamCtxDone
    \/ ReadFileNext
    \/ ReadFileReturn

SpecProbe == InitExec /\ [][NextProbe]_vars

NextReadable ==
    \/ \E pod \in Pods, container \in Containers, mode \in FileModes :
          CallCheckReadable(pod, container, mode)
    \/ CtxExpire
    \/ \E e \in ExecutorErrors : NewExecutorFail(e)
    \/ StartStream
    \/ StatPrint
    \/ \E ch \in Chars : RemoteWriteStderr(ch)
    \/ ProbeExitZero
    \/ \E n \in ExitCodes : StreamExitCode(n)
    \/ \E e \in TransportErrors : StreamFail(e)
    \/ StreamCtxDone
    \/ CheckReadableFallback
    \/ CheckReadableReturn

SpecReadable == InitExec /\ [][NextReadable]_vars

\* a namespace with some pods and some groups, before GetUniquePods is called
InitPods ==
    /\ NoTokenBucket
    /\ InitExecVars
    /\ fileMode = <<>>
    /\ cluster \in SUBSET PodNamesOf(NamespacePods)
    /\ churn = 0
    /\ groups \in GroupConfigs
    /\ gup = [pc |-> "idle"]
    /\ listed = <<>>
    /\ call = <<>>
    /\ returned = <<>>

NextPods ==
    \/ CallGetUniquePods
    \/ EnumerateGroups
    \/ \E e \in ApiErrors : EnumerateGroupsFail(e)
    \/ GroupPods
    \/ \E e \in ApiErrors : GroupPodsFail(e)
    \/ FinalList
    \/ \E e \in ApiErrors : FinalListFail(e)

SpecPods == InitPods /\ [][NextPods]_vars

\* GetUniquePods in a namespace whose pods may be deleted during the call
InitPodsChurn == InitPods /\ cluster = PodNamesOf(NamespacePods)

NextPodsChurn ==
    \/ CallGetUniquePods
    \/ EnumerateGroups
    \/ \E e \in ApiErrors : EnumerateGroupsFail(e)
    \/ GroupPods
    \/ \E e \in ApiErrors : GroupPodsFail(e)
    \/ FinalList
    \/ \E e \in ApiErrors : FinalListFail(e)
    \/ \E p \in PodNamesOf(NamespacePods) : PodDeleted(p)

SpecPodsChurn == InitPodsChurn /\ [][NextPodsChurn]_vars

\* a function of the package is about to be applied to arg
InitCall(fn, args) ==
    /\ NoTokenBucket
    /\ InitExecVars
    /\ fileMode = <<>>
    /\ cluster = {}
    /\ churn = 0
    /\ groups = <<>>
    /\ gup = [pc |-> "idle"]
    /\ listed = <<>>
    /\ call \in {[fn |-> fn, arg |-> a] : a \in args}
    /\ returned = <<>>

InitImages == InitCall("GetUniqueImages", ImageListings)
NextImages == GetUniqueImagesCall
SpecImages == InitImages /\ [][NextImages]_vars

InitClassify == InitCall("GetExitCode", ClassifiedErrors)
NextClassify == GetExitCodeCall
SpecClassify == InitClassify /\ [][NextClassify]_vars

InitDescribe == InitCall("GetExitCodeDescription", CodeRange)
NextDescribe == GetExitCodeDescriptionCall
SpecDescribe == InitDescribe /\ [][NextDescribe]_vars

-----------------------------------------------------------------------------
(* The token bucket *)

\* C1: in every reachable state, under any interleaving of refill ticks and
\* concurrent Wait callers, the number of available tokens is between 0 and
\* burst inclusive.
C1_TokensWithinCapacity == tokens >= 0 /\ tokens <= burst

\* the bucket was emptied by concurrent callers and refilled to its capacity
C1_Witness ==
    /\ burst = MaxBurst
    /\ tokens = burst
    /\ completed >= burst
    /\ added >= burst
    /\ \E c \in Callers : wpc[c] = "wait"

\* C2: the bucket is made with exactly burst tokens: as long as no refill
\* has added a token, the bucket holds burst minus the returned Waits, so
\* each of the first burst Waits can return at once; and more than burst
\* Waits have returned only if a refill tick has added a token.
C2_PreloadedBurst ==
    /\ (started = 0 /\ added = 0) => tokens = burst
    /\ added = 0 => tokens = burst - completed
    /\ (added = 0 /\ completed < burst) => tokens > 0
    /\ completed > burst => added >= 1
    /\ (added = 0 /\ completed = burst) => \A c \in Callers : ~ENABLED WaitReturn(c)

\* burst Waits returned with no refill, and the next caller is blocked
C2_Witness ==
    /\ burst = MaxBurst
    /\ added = 0
    /\ completed = burst
    /\ \E c \in Callers : wpc[c] = "wait"

\* C3: token accounting is exact.  At all times the available tokens are
\* burst plus the refill sends minus the returned Waits.  A returning Wait
\* removes exactly one token.  The refill goroutine goes on to send exactly
\* when its check under the lock finds the bucket below capacity, the send
\* adds exactly one token, and a tick whose check finds the bucket full
\* changes nothing and is not credited later.  Nothing else changes the count.
C3_Accounting == tokens = burst + added - completed

C3_Steps ==
    /\ completed' # completed =>
          /\ completed' = completed + 1
          /\ tokens' = tokens - 1
          /\ added' = added
    /\ added' # added =>
          /\ rpc = "send"
          /\ added' = added + 1
          /\ tokens' = tokens + 1
          /\ completed' = completed
    /\ tokens' # tokens => (completed' # completed \/ added' # added)
    /\ (rpc = "check" /\ rpc' # rpc) =>
          /\ rpc' = (IF tokens < burst THEN "send" ELSE "unlock")
          /\ tokens' = tokens
    /\ rpc' = "send" => (rpc \in {"check", "send"} /\ tokens' < burst)
    /\ (rpc = "send" /\ rpc' # rpc) => added' = added + 1
    /\ (rpc = "check" /\ rpc' = "unlock") =>
          (tokens' = tokens /\ added' = added /\ lastTick' = "dropped")

C3_ExactAccounting == [](C3_Accounting) /\ [][C3_Steps]_vars

\* a tick found the bucket full and was dropped, after tokens had been
\* consumed and refilled
C3_Witness ==
    /\ lastTick = "dropped"
    /\ rpc = "range"
    /\ added >= 1
    /\ completed >= 1
    /\ tokens = burst

\* C4: Wait returns only by taking a token, and with burst >= 1 and a refill
\* process that keeps ticking every caller blocked in Wait eventually
\* returns, for any number of concurrent callers.
C4_WaitTakesToken ==
    \A c \in Callers :
        (wpc[c] = "wait" /\ wpc'[c] = "idle") => (tokens > 0 /\ tokens' = tokens - 1)

C4_WaitReturns ==
    /\ [][C4_WaitTakesToken]_vars
    /\ \A c \in Callers : (burst >= 1 /\ wpc[c] = "wait") ~> (wpc[c] = "idle")

\* a caller is blocked on an empty bucket, after more Waits returned than the
\* bucket held at the start
C4_Witness ==
    /\ burst >= 1
    /\ tokens = 0
    /\ completed > burst
    /\ \E c \in Callers : wpc[c] = "wait"

-----------------------------------------------------------------------------
(* Exec and ExecWithContext *)

\* the text whose lines are l, joined by line breaks
RECURSIVE JoinLines(_)
JoinLines(l) ==
    IF Len(l) = 0 THEN <<>>
    ELSE IF Len(l) = 1 THEN l[1]
    ELSE l[1] \o <<"\n">> \o JoinLines(Tail(l))

ExecOps == {"Exec", "ExecWithContext"}

Returned(o) == op = o /\ opPc = "returned"

\* C5: when the stream of an Exec invocation ends because its deadline
\* expired, the outcome has RetCode ExecutionTimeOut (-2), and its Stdout and
\* Stderr are the lines of what the remote command had written to each
\* buffer before the expiry.
C5_ExecTimeout ==
    (Returned("Exec") /\ ending.how = "deadline") =>
        /\ result[1].RetCode = -2
        /\ JoinLines(result[1].Stdout) = written.out
        /\ JoinLines(result[1].Stderr) = written.err

\* Exec timed out after the remote command wrote to both streams
C5_Witness ==
    /\ Returned("Exec")
    /\ ending.how = "deadline"
    /\ nStreams = 1
    /\ written.out # <<>>
    /\ written.err # <<>>

\* C6: through either entry point, an invocation that ended by deadline
\* expiry is reported with the ExecutionTimeOut sentinel, which differs from
\* InternalAppError and from every process exit code.
C6_TimeoutSentinel ==
    \A o \in ExecOps :
        (Returned(o) /\ ending.how = "deadline") =>
            /\ result[1].RetCode = -2
            /\ result[1].RetCode # InternalAppError
            /\ result[1].RetCode \notin 0..255

\* C7: when the remote command completes with a non-zero exit code N, the
\* outcome of Exec and of ExecWithContext has RetCode N, never
\* InternalAppError or ExecutionTimeOut; when it completes with exit 0 the
\* outcome has RetCode Success and an empty error text.
C7_ProcessExit ==
    \A o \in ExecOps :
        /\ (Returned(o) /\ ending.how = "exit") =>
              /\ result[1].RetCode = ending.status
              /\ result[1].RetCode \notin {-1, -2}
        /\ (Returned(o) /\ ending.how = "exit0") =>
              /\ result[1].RetCode = 0
              /\ JoinLines(result[1].Error) = <<>>

\* ExecWithContext returned after the remote command exited with 137, before
\* any deadline
C7_Witness ==
    /\ Returned("ExecWithContext")
    /\ ending.how = "exit"
    /\ ending.status = 137
    /\ ctx.deadline
    /\ ctx.err = NoErr

\* C8: when the executor cannot be made, or streaming fails with an error
\* that is neither a process exit nor a deadline expiry, the outcome has
\* RetCode InternalAppError (-1) and its Error lines are the lines of the raw
\* text of that failure.
C8_SetupFailure ==
    \A o \in ExecOps :
        (Returned(o) /\ ending.how \in {"executor", "transport", "canceled"}) =>
            /\ result[1].RetCode = -1
            /\ JoinLines(result[1].Error) = ending.text
            /\ ending.text # <<>>

\* Exec returned after a stream failure whose text has several lines
C8_Witness ==
    /\ Returned("Exec")
    /\ ending.how = "transport"
    /\ Len(result[1].Error) = 3

\* the state of the invocation in Pending -> Streaming -> {Completed,
\* TimedOut, Failed}
Phase ==
    CASE execPc = "idle" -> "Idle"
      [] execPc = "Pending" -> "Pending"
      [] execPc = "Streaming" -> "Streaming"
      [] execPc = "done" /\ ending.how \in {"exit0", "exit"} -> "Completed"
      [] execPc = "done" /\ ending.how = "deadline" -> "TimedOut"
      [] OTHER -> "Failed"

TerminalPhases == {"Completed", "TimedOut", "Failed"}

\* C9 as claimed: every Exec / ExecWithContext invocation goes Pending ->
\* Streaming -> one terminal state and opens exactly one remote command
\* stream.
C9_ExactlyOneStream ==
    \A o \in ExecOps : (op = o /\ Phase \in TerminalPhases) => nStreams = 1

\* C9, amended: every Exec / ExecWithContext invocation goes Pending ->
\* Streaming -> exactly one of {Completed, TimedOut, Failed}, or Pending ->
\* Failed when the executor cannot be made; it opens at most one remote
\* command stream (none when the executor cannot be made, one otherwise),
\* leaves its terminal state no more, and constructs exactly one
\* ExecutionStatus, after the terminal state is reached.
C9_Counts ==
    \A o \in ExecOps :
        op = o =>
            /\ nStreams <= 1
            /\ nStatus <= 1
            /\ nStatus = 1 <=> opPc = "returned"
            /\ nStatus = 1 => Phase \in TerminalPhases
            /\ Phase \in TerminalPhases =>
                  nStreams = (IF ending.how = "executor" THEN 0 ELSE 1)
            /\ Phase = "Streaming" => nStreams = 1
            /\ Phase = "Pending" => nStreams = 0

C9_Steps ==
    /\ Phase' # Phase =>
          <<Phase, Phase'>> \in
              {<<"Idle", "Pending">>, <<"Pending", "Streaming">>,
               <<"Pending", "Failed">>, <<"Streaming", "Completed">>,
               <<"Streaming", "TimedOut">>, <<"Streaming", "Failed">>}
    /\ (Phase = "Pending" /\ Phase' = "Failed") => ending'.how = "executor"
    /\ nStreams' # nStreams => (Phase = "Pending" /\ Phase' = "Streaming")
    /\ nStatus' # nStatus => (Phase \in TerminalPhases /\ Phase' = Phase)

C9_OneStreamAtMost == [](C9_Counts) /\ [][C9_Steps]_vars

\* an invocation returned its ExecutionStatus without having opened a stream
C9_Witness ==
    /\ Returned("Exec")
    /\ ending.how = "executor"
    /\ nStreams = 0
    /\ nStatus = 1
    /\ result[1].RetCode = InternalAppError

-----------------------------------------------------------------------------
(* ReadFile *)

\* C10: ReadFile issues its attempts one after another in the order cat,
\* sed, tail -n +1, shell read loop; attempt k+1 is issued only after attempt
\* k finished with a result other than Success; once an attempt returns
\* Success no further attempt is issued; a call makes between 1 and 4
\* attempts.
C10_SequentialChain ==
    op = "ReadFile" =>
        /\ Len(issued) \in 1..4
        /\ \A k \in 1..Len(issued) : issued[k] = <<"cat", "sed", "tail", "sh">>[k]
        /\ Len(finished) \in {Len(issued) - 1, Len(issued)}
        /\ Len(finished) = Len(issued) <=> execPc = "done"
        /\ \A k \in 1..(Len(issued) - 1) : finished[k] # 0
        /\ opPc = "returned" =>
              /\ Len(finished) = Len(issued)
              /\ (finished[Len(finished)] = 0 \/ Len(issued) = 4)

\* ReadFile returned after cat and sed failed and tail succeeded
C10_Witness ==
    /\ Returned("ReadFile")
    /\ issued = <<"cat", "sed", "tail">>
    /\ finished[1] # 0
    /\ finished[2] # 0
    /\ finished[3] = 0

\* C11: when some attempt of ReadFile succeeds, the string ReadFile returns
\* is exactly the standard output of the first successful attempt, with
\* nothing added from earlier failed attempts.
C11_FirstSuccessVerbatim ==
    (Returned("ReadFile") /\ finished[Len(finished)] = 0) =>
        result[1].str = written.out

\* C12: the error ReadFile returns is the error of the last attempt it
\* issued: nil when an attempt succeeded, and when all four attempts failed
\* the error of the fourth, the shell read loop.
C12_LastAttemptError ==
    Returned("ReadFile") =>
        /\ (\E k \in 1..Len(finished) : finished[k] = 0) => result[1].err = NoErr
        /\ (\A k \in 1..Len(finished) : finished[k] # 0) =>
              /\ Len(issued) = 4
              /\ issued[4] = "sh"
              /\ result[1].err # NoErr
              /\ ending.how = "exit" =>
                    /\ Len(result[1].err) = 1
                    /\ result[1].err[1].kind = "CodeExit"
                    /\ result[1].err[1].code = ending.status
                    /\ ending.status = finished[4]
              /\ ending.how # "exit" =>
                    /\ result[1].err[1].kind # "CodeExit"
                    /\ result[1].err[1].text = ending.text
                    /\ finished[4] = -1

\* all four attempts failed, the first by a failure of the stream and the
\* fourth by the exit code 137 of the shell
C12_Witness ==
    /\ Returned("ReadFile")
    /\ finished = <<-1, 1, 1, 137>>
    /\ result[1].err # NoErr
    /\ result[1].err[1].code = 137

\* C13: each attempt of a file probe has its own 5-second deadline that
\* starts when the attempt starts: no attempt after the first is started
\* with a deadline that has already expired.
C13_OwnDeadline ==
    [][(Len(issued') > Len(issued) /\ ending.how = "deadline") => ctx'.err = NoErr]_vars

-----------------------------------------------------------------------------
(* CheckIfFilePathIsReadable *)

\* the owner, group and others digits of a 3- or 4-digit permission string
LastThree(mode) == SubSeq(mode, Len(mode) - 2, Len(mode))

\* C14: if the permission query (stat) succeeds, the result is true exactly
\* when at least one of the owner, group or others digits of the file's
\* permission bits has the read bit (4) set, and the shell test is not run;
\* if the permission query fails, the shell test is run and the result is
\* true exactly when that test exits with code 0.
C14_ReadableVerdict ==
    Returned("CheckReadable") =>
        /\ finished[1] = 0 =>
              /\ issued = <<"stat">>
              /\ result[1] = (\E i \in 1..3 : LastThree(fileMode)[i] \in {4, 5, 6, 7})
        /\ finished[1] # 0 =>
              /\ issued = <<"stat", "test">>
              /\ result[1] = (finished[2] = 0)

-----------------------------------------------------------------------------
(* GetUniquePods *)

GetUniquePodsReturned == gup.pc = "returned"
GetUniquePodsSucceeded == GetUniquePodsReturned /\ returned[1].err = NoErr

\* C15: the representative list returned by GetUniquePods contains no pod
\* twice, for every configuration of groups and pods, including groups whose
\* selectors match overlapping sets of pods.
C15_NoDuplicates ==
    GetUniquePodsSucceeded =>
        \A i, j \in 1..Len(returned[1].pods) :
            returned[1].pods[i] = returned[1].pods[j] => i = j

\* the listings of the pods of one group that succeeded, in call order
GroupListings == SelectSeq(listed, LAMBDA l : l.call = "Pods" /\ l.kind # 0 /\ l.err = NoErr)
\* the pods matched by a group whose listing succeeded
Matched == UNION {PodNamesOf(GroupListings[i].items) : i \in 1..Len(GroupListings)}
NonEmptyListings == SelectSeq(GroupListings, LAMBDA l : l.items # <<>>)

\* C16: on success GetUniquePods returns as total the number of pods of the
\* final namespace listing, and as list the first pod of every group whose
\* listing returned at least one pod (every group is listed once,
\* Deployments, then StatefulSets, then DaemonSets, each in enumeration
\* order), followed by exactly the pods of the final listing that no group
\* listing returned, in listing order.
C16_TotalAndRepresentatives ==
    GetUniquePodsSucceeded =>
        LET final == listed[Len(listed)]
            calls == SelectSeq(listed, LAMBDA l : l.call = "Pods" /\ l.kind # 0)
        IN  /\ final.call = "Pods" /\ final.kind = 0
            /\ returned[1].total = Len(final.items)
            /\ Len(calls) = Len(groups[1]) + Len(groups[2]) + Len(groups[3])
            /\ \A i, j \in 1..Len(calls) :
                  i < j => \/ calls[i].kind < calls[j].kind
                           \/ /\ calls[i].kind = calls[j].kind
                              /\ calls[i].idx < calls[j].idx
            /\ returned[1].pods =
                  [i \in 1..Len(NonEmptyListings) |-> NonEmptyListings[i].items[1]]
                      \o SelectSeq(final.items, LAMBDA p : p \notin Matched)

C16_Witness ==
    /\ GetUniquePodsSucceeded
    /\ returned[1].total = 3
    /\ returned[1].pods = <<"p1", "p3">>
    /\ Len(GroupListings) = 2
    /\ Len(NonEmptyListings) = 1

\* the last API call GetUniquePods made
LastListing == listed[Len(listed)]
\* an entry of the history that is an enumeration of groups or the final
\* namespace listing, not the listing of the pods of one group
IsFatalCall(l) == l.idx = 0

C17_Swallowed ==
    (gup.pc = "pods" /\ Len(listed') > Len(listed) /\ listed'[Len(listed')].err # NoErr) =>
        /\ gup'.uniquePods = gup.uniquePods
        /\ gup'.member = gup.member
        /\ returned' = returned
        /\ IF gup.idx < Len(groups[gup.kind])
           THEN gup'.pc = "pods" /\ gup'.kind = gup.kind /\ gup'.idx = gup.idx + 1
           ELSE IF gup.kind < 3
                THEN gup'.pc = "enumerate" /\ gup'.kind = gup.kind + 1
                ELSE gup'.pc = "final"

C17_Aborted ==
    /\ \A i \in 1..Len(listed) :
          (IsFatalCall(listed[i]) /\ listed[i].err # NoErr) =>
              /\ i = Len(listed)
              /\ GetUniquePodsReturned
              /\ returned[1] = [total |-> 0, pods |-> <<>>, err |-> listed[i].err]
    /\ GetUniquePodsReturned =>
          /\ IsFatalCall(LastListing)
          /\ LastListing.err = NoErr => returned[1].err = NoErr

\* C17: a failure listing the pods of one group is swallowed: that group adds
\* no representative and no membership entries, and processing continues
\* with the next group; a failure enumerating Deployments, StatefulSets or
\* DaemonSets, or a failure of the final namespace listing, ends the call,
\* which returns count 0, a nil list and the error.
C17_PartialTolerance == []C17_Aborted /\ [][C17_Swallowed]_vars

C17_Witness ==
    /\ GetUniquePodsSucceeded
    /\ returned[1].pods # <<>>
    /\ \E i, j \in 1..Len(listed) :
          /\ i < j
          /\ ~IsFatalCall(listed[i]) /\ listed[i].err # NoErr
          /\ ~IsFatalCall(listed[j]) /\ listed[j].items # <<>>

-----------------------------------------------------------------------------
(* GetUniqueImages *)

\* the images of all containers of all pods, in listing order
RECURSIVE AllContainers(_)
AllContainers(pods) ==
    IF pods = <<>> THEN <<>> ELSE Head(pods) \o AllContainers(Tail(pods))

FirstOccurrence(s, x) == CHOOSE i \in 1..Len(s) : s[i] = x /\ \A j \in 1..(i - 1) : s[j] # x

\* C18: GetUniqueImages returns as count the sum over all pods of their
\* number of containers, and as list every image that occurs in any
\* container exactly once, ordered by first occurrence when walking pods and
\* their containers in listing order; on a listing failure it returns
\* (0, nil, error).
C18_UniqueImages ==
    (call # <<>> /\ call.fn = "GetUniqueImages" /\ returned # <<>>) =>
        LET r == returned[1]
            all == AllContainers(call.arg.items)
        IN  IF call.arg.err # NoErr
            THEN r = [count |-> 0, images |-> <<>>, err |-> call.arg.err]
            ELSE /\ r.err = NoErr
                 /\ r.count = Len(all)
                 /\ {r.images[i] : i \in 1..Len(r.images)} = {all[i] : i \in 1..Len(all)}
                 /\ \A i, j \in 1..Len(r.images) :
                       i < j => /\ r.images[i] # r.images[j]
                                /\ FirstOccurrence(all, r.images[i])
                                      < FirstOccurrence(all, r.images[j])

C18_Witness ==
    /\ call # <<>> /\ call.fn = "GetUniqueImages" /\ returned # <<>>
    /\ call.arg.items = <<<<"redis", "nginx">>, <<"nginx", "redis">>>>
    /\ returned[1].count = 4
    /\ returned[1].images = <<"redis", "nginx">>

-----------------------------------------------------------------------------
(* GetExitCode, GetExitCodeDescription *)

CallReturned(fn) == call # <<>> /\ call.fn = fn /\ returned # <<>>

\* C19: for an error that carries a structured process exit code N,
\* GetExitCode returns (N, description of N in the table) when N has an entry
\* in the table, e.g. (137, "Fatal error signal 9 (SIGKILL)"), and
\* (N, "Exit code N description not found!") when it has none, e.g. for 200;
\* for any error that carries no structured exit code it returns
\* (InternalAppError, "").
C19_Classify ==
    CallReturned("GetExitCode") =>
        LET e == call.arg
            r == returned[1]
            digits == [d \in 0..9 |-> <<"0", "1", "2", "3", "4", "5", "6", "7", "8", "9">>[d + 1]]
            carries(n) == e \in {CodeExitError(n), Wrapped(CodeExitError(n))}
        IN  /\ \A n \in CodeRange :
                  carries(n) =>
                      /\ r[1] = n
                      /\ \A i \in 1..Len(exitCodeDescriptions) :
                            exitCodeDescriptions[i][1] = n => r[2] = exitCodeDescriptions[i][2]
                      /\ (n \in 100..999 /\ \A i \in 1..Len(exitCodeDescriptions) :
                                               exitCodeDescriptions[i][1] # n) =>
                            r[2] = "Exit code " \o digits[n \div 100]
                                       \o digits[(n \div 10) % 10] \o digits[n % 10]
                                       \o " description not found!"
                      /\ (\A i \in 1..Len(exitCodeDescriptions) :
                             exitCodeDescriptions[i][1] # n) => r[2] # ""
            /\ carries(137) => r = <<137, "Fatal error signal 9 (SIGKILL)">>
            /\ carries(200) => r = <<200, "Exit code 200 description not found!">>
            /\ (\A n \in CodeRange : ~carries(n)) => r = <<InternalAppError, "">>

C19_Witness ==
    /\ CallReturned("GetExitCode")
    /\ call.arg = Wrapped(CodeExitError(200))
    /\ returned[1] = <<200, "Exit code 200 description not found!">>

\* the codes for which the lookup gives a text
Described == {c \in CodeRange : GetExitCodeDescription(c) # ""}

-----------------------------------------------------------------------------
(* Cancellation *)

\* the caller's context is cancelled while the stream of ExecWithContext runs
CancelledWhileStreaming ==
    op = "ExecWithContext" /\ execPc = "Streaming" /\ ctx.err = Canceled

\* what ends an invocation of Exec: the remote command completes, the stream
\* fails or cannot be opened, or the deadline made from the timeout expires
ExecEndings == {"exit0", "exit", "transport", "executor", "deadline"}

C21_ExecUncancellable ==
    op = "Exec" =>
        /\ ctx.deadline
        /\ ctx.err \in {NoErr, DeadlineExceeded}
        /\ Phase \in TerminalPhases => ending.how \in ExecEndings

C21_CancelOutcome ==
    (Returned("ExecWithContext") /\ ending.how = "canceled") =>
        /\ result[1].RetCode = InternalAppError
        /\ result[1].Stdout = Split(stdout)
        /\ result[1].Stderr = Split(stderr)

\* C21: when the caller cancels the context passed to ExecWithContext while
\* the invocation is streaming, the stream is ended and the invocation
\* returns an outcome without waiting for the remote command to finish; an
\* invocation started with Exec ends only by remote completion, by a stream
\* failure, or by expiry of its own deadline, and no step of the caller ends
\* it earlier.
C21_Cancellation ==
    /\ CancelledWhileStreaming ~> Returned("ExecWithContext")
    /\ []C21_CancelOutcome
    /\ []C21_ExecUncancellable
    /\ [][op = "Exec" => ctx'.err # Canceled]_vars

C21_Witness ==
    /\ Returned("ExecWithContext")
    /\ ctx = [deadline |-> TRUE, err |-> Canceled]
    /\ ending.how = "canceled"
    /\ written.out # <<>>
    /\ result[1].RetCode = InternalAppError

-----------------------------------------------------------------------------
(* The refill goroutine and the mutex *)

\* the refill goroutine is between bucket.mu.Lock() and bucket.mu.Unlock()
RefillHoldsLock == rpc \in {"check", "send", "unlock"}

C22_SendNeverBlocks ==
    /\ mu <=> RefillHoldsLock
    /\ rpc = "send" => CanSend(tokens, burst)
    /\ mu => ENABLED Refill

C22_OnlyWaitRemoves ==
    (tokens' < tokens) => \E c \in Callers : wpc[c] = "wait" /\ wpc'[c] = "idle" /\ mu' = mu

\* C22: the refill goroutine never blocks while it holds the mutex of the
\* bucket: it sends into the token channel only after it saw len < cap under
\* the lock, every other process only removes tokens and does not take the
\* mutex, so the send can always proceed; no state is reachable in which the
\* refill goroutine is stuck holding the lock, and the lock is always
\* released again, whatever the concurrent callers of Wait do.
C22_RefillNeverStuck ==
    /\ []C22_SendNeverBlocks
    /\ [][C22_OnlyWaitRemoves]_vars
    /\ mu ~> ~mu

C22_Witness ==
    /\ rpc = "send"
    /\ mu
    /\ tokens < burst
    /\ completed > 0
    /\ \E c \in Callers : wpc[c] = "wait"

-----------------------------------------------------------------------------
(* Coverage of GetUniquePods *)

\* the selectors of the groups that contributed a representative: those
\* whose listing succeeded and returned at least one pod
ContributingSelectors ==
    {groups[NonEmptyListings[i].kind][NonEmptyListings[i].idx] :
        i \in 1..Len(NonEmptyListings)}

\* C23: when the pods and groups do not change during the call and the call
\* succeeds, every pod of the final namespace listing is itself in the
\* representative list or carries the labels required by the selector of a
\* group that contributed a representative, also when listings of the pods of
\* some groups failed; and every pod of the representative list is a pod of
\* the final listing.
C23_Coverage ==
    (GetUniquePodsSucceeded /\ churn = 0) =>
        LET final == PodNamesOf(LastListing.items)
            reps == PodNamesOf(returned[1].pods)
        IN  /\ final = cluster
            /\ \A p \in final :
                  \/ p \in reps
                  \/ \E sel \in ContributingSelectors : sel \subseteq PodLabels(p)
            /\ reps \subseteq final

C23_Witness ==
    /\ GetUniquePodsSucceeded
    /\ churn = 0
    /\ \E i \in 1..Len(listed) : ~IsFatalCall(listed[i]) /\ listed[i].err # NoErr
    /\ NonEmptyListings # <<>>
    /\ \E p \in cluster : p \notin PodNamesOf(returned[1].pods)
    /\ Len(returned[1].pods) = 2

====
